---- MODULE Spec2Model ----
(***************************************************************************)
(* A model of scripts/fetch_all_votes.py: the pipeline that walks the      *)
(* sessions, cases and votes of the Stortinget export API, reconciles each *)
(* coarse vote record with its detail and its case title, sorts the        *)
(* records by timestamp and writes them to votes.json.                     *)
(*                                                                         *)
(* A Python str is a sequence of one-character strings; None and a missing *)
(* dictionary key / XML element are two tokens that are no str.            *)
(***************************************************************************)
EXTENDS Integers, Sequences, FiniteSets, TLC

VARIABLES
    upstream,     \* the remote data service: the response of every endpoint, per id
    run,          \* which invocation of main() this is
    pc,           \* where main() / fetch_all_votes() stands
    error,        \* the exception that ended the run ("" while none has)
    sessions,     \* fetch_all_votes: sessions
    si,           \* index of the session the outer loop is at
    sak_ids,      \* fetch_all_votes: sak_ids of the current session
    ki,           \* index of the case the middle loop is at
    votes,        \* fetch_all_votes: votes of the current case
    vi,           \* index of the vote the inner loop is at
    all_votes,    \* fetch_all_votes: all_votes
    mangler_tid,  \* the ids logged by "Mangler tid for votering ..." in this run
    document      \* public/data/votes.json: <<>> while absent, else <<data>>

vars == <<upstream, run, pc, error, sessions, si, sak_ids, ki, votes, vi,
          all_votes, mangler_tid, document>>

----------------------------------------------------------------------------
(* Bounds of the model.                                                    *)

\* datetime.now().year of the machine the script runs on
CurrentYear == 2022

\* how many times main() is invoked against the same, unchanged upstream
MaxRuns == 2

\* how many representant_votering elements a detail response holds at most
MaxBallots == 2

\* a constant of the program: the first year of the range in
\* fetch_all_sessions_since_2022
StartYear == 2022

----------------------------------------------------------------------------
(* Python values.                                                          *)

\* Python's None
None == <<"NoneType">>

\* a dictionary key or an XML element that is not there
Absent == <<"Missing">>

\* the printable ASCII characters in code-point order, from 32; the double
\* quote, the backslash and the backtick are held by names
Ascii ==
    <<" ", "!", "QUOTE", "#", "$", "%", "&", "'", "(", ")", "*", "+", ",", "-", ".", "/",
      "0", "1", "2", "3", "4", "5", "6", "7", "8", "9", ":", ";", "<", "=", ">", "?",
      "@", "A", "B", "C", "D", "E", "F", "G", "H", "I", "J", "K", "L", "M", "N", "O",
      "P", "Q", "R", "S", "T", "U", "V", "W", "X", "Y", "Z", "[", "BACKSLASH", "]", "^", "_",
      "BACKTICK", "a", "b", "c", "d", "e", "f", "g", "h", "i", "j", "k", "l", "m", "n", "o",
      "p", "q", "r", "s", "t", "u", "v", "w", "x", "y", "z", "{", "|", "}", "~">>

\* the code point of a character
Ord(c) == 31 + (CHOOSE i \in 1..Len(Ascii) : Ascii[i] = c)

Chr(n) == Ascii[n - 31]

\* str.__lt__: code-point lexicographic order, a proper prefix is smaller
StrLt(a, b) ==
    \E i \in 1..Len(b) :
        /\ \A j \in 1..(i - 1) : j <= Len(a) /\ a[j] = b[j]
        /\ \/ i = Len(a) + 1
           \/ i <= Len(a) /\ Ord(a[i]) < Ord(b[i])

\* a value Python treats as true (if x, x if x else y): neither None nor empty
Truthy(x) == x # None /\ x # Absent /\ x # <<>>

\* str.lower()
RECURSIVE lower(_)
lower(s) ==
    IF s = <<>> THEN <<>>
    ELSE LET c == Head(s)
         IN  <<IF Ord(c) >= 65 /\ Ord(c) <= 90 THEN Chr(Ord(c) + 32) ELSE c>>
             \o lower(Tail(s))

RECURSIVE lstrip(_)
lstrip(s) == IF s # <<>> /\ Head(s) = " " THEN lstrip(Tail(s)) ELSE s

RECURSIVE rstrip(_)
rstrip(s) ==
    IF s # <<>> /\ s[Len(s)] = " " THEN rstrip(SubSeq(s, 1, Len(s) - 1)) ELSE s

\* str.strip()
strip(s) == rstrip(lstrip(s))

\* f"{x}" of a str or of None
Format(x) == IF x = None THEN <<"N", "o", "n", "e">> ELSE x

IsDigit(c) == Ord(c) >= 48 /\ Ord(c) <= 57

RECURSIVE DigitsValue(_)
DigitsValue(d) ==
    IF d = <<>> THEN 0
    ELSE 10 * DigitsValue(SubSeq(d, 1, Len(d) - 1)) + (Ord(d[Len(d)]) - 48)

\* int(s) of a str: surrounding blanks, an optional sign, then digits;
\* anything else raises ValueError
int(s) ==
    LET t      == strip(s)
        signed == t # <<>> /\ Head(t) \in {"-", "+"}
        digits == IF signed THEN Tail(t) ELSE t
        valid  == digits # <<>> /\ \A i \in 1..Len(digits) : IsDigit(digits[i])
    IN  IF ~valid THEN [exc |-> "ValueError", value |-> 0]
        ELSE [exc |-> "",
              value |-> IF signed /\ Head(t) = "-" THEN 0 - DigitsValue(digits)
                        ELSE DigitsValue(digits)]

\* dict.get(key, default) on a dictionary modelled as a record
Get(d, key, default) == IF d[key] = Absent THEN default ELSE d[key]

\* a local variable no assignment has reached yet
Unbound == <<"Unbound">>

----------------------------------------------------------------------------
(* The session enumerator.                                                 *)

\* the loop "for year in range(year, stop): sessions.append(...)"
RECURSIVE SessionsFrom(_, _)
SessionsFrom(year, stop) ==
    IF year >= stop THEN <<>> ELSE <<<<year, year + 1>>>> \o SessionsFrom(year + 1, stop)

\* the session f"{year}-{year+1}" is the pair <<year, year + 1>>
fetch_all_sessions_since_2022 == SessionsFrom(StartYear, CurrentYear + 2)

----------------------------------------------------------------------------
(* The four fetchers. A response of the service is                         *)
(*   [status |-> "ok" | "transport" | "malformed", doc |-> the XML tree],  *)
(* "transport" standing for every error of requests.get and                *)
(* raise_for_status (connection, timeout, HTTP status) and "malformed" for *)
(* a body ET.fromstring rejects. An element's text is None (an empty       *)
(* element) or a non-empty str; Absent says the element is not there.      *)

\* the trees of a response that carries none
EmptyDoc ==
    [saker      |-> <<>>,
     voteringer |-> <<>>,
     votering   |-> [votering_dato_tid |-> Absent, ballots |-> <<>>],
     sak        |-> [korttittel |-> Absent, tittel |-> Absent]]

\* requests.get(url): the service answers an id it does not hold with an
\* HTTP error status
Answer(endpoint, id) ==
    IF id \in DOMAIN upstream[endpoint] THEN upstream[endpoint][id]
    ELSE [status |-> "transport", doc |-> EmptyDoc[endpoint]]

\* what requests.get / raise_for_status / ET.fromstring raise on a response
RaisedBy(resp) ==
    CASE resp.status = "transport" -> "RequestException"
      [] resp.status = "malformed" -> "ParseError"
      [] OTHER                     -> ""

\* fetch_saker_from_session with "except Exception" narrowed to the errors
\* of requests: a malformed body escapes
fetch_saker_from_session_narrow(sesjon) ==
    LET resp == Answer("saker", sesjon)
    IN  IF RaisedBy(resp) = "ParseError" THEN [exc |-> "ParseError", value |-> <<>>]
        ELSE IF RaisedBy(resp) # "" THEN [exc |-> "", value |-> <<>>]
        ELSE [exc |-> "", value |-> SelectSeq(resp.doc, Truthy)]

\* exc is the exception that leaves the function ("": it returned value)
fetch_saker_from_session(sesjon) ==
    LET resp == Answer("saker", sesjon)
    IN  IF RaisedBy(resp) # ""
        THEN [exc |-> "", value |-> <<>>]                   \* except Exception: return []
        ELSE [exc |-> "",
              \* a sak is the text of its id element; kept when present and not empty
              value |-> SelectSeq(resp.doc, LAMBDA sak_id_elem : Truthy(sak_id_elem))]

\* the dictionary built for one sak_votering element; a key that was not set
\* is Absent
vote_data(votering) ==
    LET nested == IF votering.votering_resultat /\ votering.votering_dato_tid # Absent
                  THEN votering.votering_dato_tid
                  ELSE Absent
    IN  [votering_tid  |-> IF nested # Absent THEN nested ELSE votering.votering_tid,
         votering_id   |-> votering.votering_id,
         antall_for    |-> votering.antall_for,
         antall_mot    |-> votering.antall_mot,
         vedtatt       |-> votering.vedtatt,
         votering_tema |-> votering.votering_tema,
         sak_id        |-> votering.sak_id]

\* "if vote_data and vote_data.get('votering_id')"
Kept(data) == Truthy(Get(data, "votering_id", None))

\* the loop over the sak_votering elements
RECURSIVE VotesOf(_)
VotesOf(doc) ==
    IF doc = <<>> THEN <<>>
    ELSE LET data == vote_data(Head(doc))
         IN  (IF Kept(data) THEN <<data>> ELSE <<>>) \o VotesOf(Tail(doc))

\* the loop over the sak_votering elements without the votering_id test
RECURSIVE AllVotesOf(_)
AllVotesOf(doc) ==
    IF doc = <<>> THEN <<>> ELSE <<vote_data(Head(doc))>> \o AllVotesOf(Tail(doc))

\* fetch_voteringer_for_sak appending every vote_data
fetch_voteringer_for_sak_keep_all(sak_id) ==
    LET resp == Answer("voteringer", sak_id)
    IN  IF RaisedBy(resp) # "" THEN [exc |-> "", value |-> <<>>]
        ELSE [exc |-> "", value |-> AllVotesOf(resp.doc)]

fetch_voteringer_for_sak(sak_id) ==
    LET resp == Answer("voteringer", sak_id)
    IN  IF RaisedBy(resp) # ""
        THEN [exc |-> "", value |-> <<>>]                   \* except Exception: return []
        ELSE [exc |-> "", value |-> VotesOf(resp.doc)]

\* one pass of the loop over the representant_votering elements; loc holds
\* the locals fornavn, etternavn and parti_id, which keep their value from
\* one pass to the next, the list stemmer, and the exception raised so far
BallotStep(loc, stemme) ==
    LET fornavn   == IF ~stemme.representant THEN loc.fornavn
                     ELSE IF stemme.fornavn # Absent THEN stemme.fornavn ELSE <<>>
        etternavn == IF ~stemme.representant THEN loc.etternavn
                     ELSE IF stemme.etternavn # Absent THEN stemme.etternavn ELSE <<>>
        parti_id  == IF ~stemme.representant THEN loc.parti_id
                     ELSE IF stemme.parti /\ stemme.parti_id # Absent
                          THEN stemme.parti_id ELSE <<>>
        stemme_resultat ==
            IF stemme.votering_resultat
            THEN (IF stemme.resultat_id # Absent THEN stemme.resultat_id ELSE <<>>)
            ELSE <<>>
    IN  IF loc.exc # "" THEN loc
        ELSE IF fornavn = Unbound
        THEN [loc EXCEPT !.exc = "UnboundLocalError"]
        ELSE [fornavn |-> fornavn, etternavn |-> etternavn, parti_id |-> parti_id,
              exc |-> "",
              stemmer |-> Append(loc.stemmer,
                  [navn   |-> strip(Format(fornavn) \o <<" ">> \o Format(etternavn)),
                   parti  |-> parti_id,
                   stemme |-> stemme_resultat])]

RECURSIVE BallotLoop(_, _)
BallotLoop(loc, ballots) ==
    IF ballots = <<>> THEN loc
    ELSE BallotLoop(BallotStep(loc, Head(ballots)), Tail(ballots))

fetch_vote_details(votering_id) ==
    LET resp     == Answer("votering", votering_id)
        dato_tid == IF resp.doc.votering_dato_tid # Absent
                    THEN resp.doc.votering_dato_tid ELSE None
        loc      == BallotLoop([fornavn |-> Unbound, etternavn |-> Unbound,
                                parti_id |-> Unbound, exc |-> "", stemmer |-> <<>>],
                               resp.doc.ballots)
    IN  IF RaisedBy(resp) # "" \/ loc.exc # ""
        THEN [stemmer |-> <<>>, dato_tid |-> None]          \* except Exception
        ELSE [stemmer |-> loc.stemmer, dato_tid |-> dato_tid]

fetch_sak_details(sak_id) ==
    LET resp  == Answer("sak", sak_id)
        kort  == resp.doc.korttittel
        lang  == resp.doc.tittel
        first == IF kort # Absent /\ Truthy(kort) THEN kort ELSE None
    IN  IF RaisedBy(resp) # "" THEN None                    \* except Exception
        ELSE IF Truthy(first) THEN first
        ELSE IF lang # Absent THEN lang ELSE None

----------------------------------------------------------------------------
(* The reconciler: the body of the loop over the votes of one case.        *)

\* int(vote.get(key, 0)) if vote.get(key) not in [None, '-1'] else 0;
\* exc is what int() raised
Count(vote, key) ==
    IF Get(vote, key, None) \in {None, <<"-", "1">>} THEN [exc |-> "", value |-> 0]
    ELSE int(Get(vote, key, <<"0">>))

\* votering_tid = riktig_dato if riktig_dato else vote.get('votering_tid', '')
VoteringTid(riktig_dato, vote) ==
    IF Truthy(riktig_dato) THEN riktig_dato ELSE Get(vote, "votering_tid", <<>>)

\* "tid" with the coarse record's own votering_tid skipped
Tid_no_nominal(riktig_dato, vote, now) ==
    IF Truthy(riktig_dato) THEN riktig_dato ELSE now

\* "tid": votering_tid if votering_tid else datetime.now().isoformat()
Tid(riktig_dato, vote, now) ==
    IF Truthy(VoteringTid(riktig_dato, vote)) THEN VoteringTid(riktig_dato, vote)
    ELSE now

\* the record built for one coarse vote, now being what datetime.now()
\* returns if it is asked; exc is the exception building it raised, the
\* entries of the dictionary being evaluated in the order written
vote_obj(vote, now) ==
    LET sakstittel  == fetch_sak_details(Get(vote, "sak_id", <<>>))
        votering_id == Get(vote, "votering_id", <<>>)
        detaljer    == fetch_vote_details(votering_id)
        for         == Count(vote, "antall_for")
        mot         == Count(vote, "antall_mot")
        vedtatt     == Get(vote, "vedtatt", <<>>)
    IN  [exc |-> IF for.exc # "" THEN for.exc
                 ELSE IF mot.exc # "" THEN mot.exc
                 ELSE IF vedtatt = None THEN "AttributeError"   \* None.lower()
                 ELSE "",
         obj |-> [id         |-> votering_id,
                  tema       |-> Get(vote, "votering_tema", <<"U", "k", "j", "e", "n", "t">>),
                  sakstittel |-> sakstittel,
                  for        |-> for.value,
                  mot        |-> mot.value,
                  vedtatt    |-> vedtatt # None /\ lower(vedtatt) = <<"t", "r", "u", "e">>,
                  sak_id     |-> Get(vote, "sak_id", <<>>),
                  tid        |-> Tid(detaljer.dato_tid, vote, now),
                  stemmer    |-> detaljer.stemmer]]

\* "if not votering_tid: logging.warning(...)"
MissingTid(vote) ==
    ~Truthy(VoteringTid(fetch_vote_details(Get(vote, "votering_id", <<>>)).dato_tid, vote))

----------------------------------------------------------------------------
(* The sorter: all_votes.sort(key=lambda x: x['tid'], reverse=True), a     *)
(* stable sort, descending, that compares the keys with < alone.           *)

\* the insertion of a sort that forgot reverse=True
RECURSIVE InsertAscending(_, _)
InsertAscending(sorted, x) ==
    IF sorted = <<>> THEN <<x>>
    ELSE IF StrLt(x.tid, Head(sorted).tid) THEN <<x>> \o sorted
    ELSE <<Head(sorted)>> \o InsertAscending(Tail(sorted), x)

\* the insertion of sorted(all_votes, key=...)[::-1]: among equal keys the
\* later record comes first
RECURSIVE InsertNewestFirst(_, _)
InsertNewestFirst(sorted, x) ==
    IF sorted = <<>> THEN <<x>>
    ELSE IF ~StrLt(x.tid, Head(sorted).tid) THEN <<x>> \o sorted
    ELSE <<Head(sorted)>> \o InsertNewestFirst(Tail(sorted), x)

\* x goes behind every record whose key is not smaller than its own
RECURSIVE Insert(_, _)
Insert(sorted, x) ==
    IF sorted = <<>> THEN <<x>>
    ELSE IF StrLt(Head(sorted).tid, x.tid) THEN <<x>> \o sorted
    ELSE <<Head(sorted)>> \o Insert(Tail(sorted), x)

RECURSIVE SortAscending(_, _)
SortAscending(sorted, rest) ==
    IF rest = <<>> THEN sorted
    ELSE SortAscending(InsertAscending(sorted, Head(rest)), Tail(rest))

RECURSIVE SortNewestFirst(_, _)
SortNewestFirst(sorted, rest) ==
    IF rest = <<>> THEN sorted
    ELSE SortNewestFirst(InsertNewestFirst(sorted, Head(rest)), Tail(rest))

RECURSIVE InsertAll(_, _)
InsertAll(sorted, rest) ==
    IF rest = <<>> THEN sorted ELSE InsertAll(Insert(sorted, Head(rest)), Tail(rest))

\* list.sort(key=..., reverse=True) without reverse=True
sort_ascending(list) == SortAscending(<<>>, list)

\* sorted(list, key=...)[::-1] in place of list.sort(key=..., reverse=True)
sort_then_reverse(list) == SortNewestFirst(<<>>, list)

sort(list) == InsertAll(<<>>, list)

----------------------------------------------------------------------------
(* main() and fetch_all_votes(), one action per step of the three nested   *)
(* loops. pc is "main" before fetch_all_votes is called, "sesjon", "sak"   *)
(* and "vote" at the head of the loop over the sessions, the cases of a    *)
(* session and the votes of a case, "returned" when fetch_all_votes has    *)
(* returned, "done" when main() has, "raised" when an exception ended it.  *)

\* the values datetime.now().isoformat() returns during a run
NowValues ==
    {<<"2", "0", "2", "6", "-", "1", "1", "-", "0", "3", "T", "0", "8", ":", "0", "0",
       ":", "0", "0", ".", "0", "0", "0", "0", "0", "1">>,
     <<"2", "0", "2", "6", "-", "1", "1", "-", "0", "3", "T", "0", "8", ":", "0", "0",
       ":", "0", "7", ".", "5", "0", "0", "0", "0", "0">>}

\* sessions = fetch_all_sessions_since_2022(); all_votes = []
Start ==
    /\ pc = "main"
    /\ sessions' = fetch_all_sessions_since_2022
    /\ si' = 1
    /\ all_votes' = <<>>
    /\ pc' = "sesjon"
    /\ UNCHANGED <<upstream, run, error, sak_ids, ki, votes, vi, mangler_tid, document>>

\* for sesjon in sessions: sak_ids = fetch_saker_from_session(sesjon)
FetchSaker ==
    /\ pc = "sesjon"
    /\ si <= Len(sessions)
    /\ LET r == fetch_saker_from_session(sessions[si])
       IN  IF r.exc # ""
           THEN /\ pc' = "raised"
                /\ error' = r.exc
                /\ UNCHANGED <<sak_ids, ki>>
           ELSE /\ sak_ids' = r.value
                /\ ki' = 1
                /\ pc' = "sak"
                /\ UNCHANGED error
    /\ UNCHANGED <<upstream, run, sessions, si, votes, vi, all_votes, mangler_tid, document>>

\* for i, sak_id in enumerate(sak_ids): votes = fetch_voteringer_for_sak(sak_id)
FetchVoteringer ==
    /\ pc = "sak"
    /\ ki <= Len(sak_ids)
    /\ LET r == fetch_voteringer_for_sak(sak_ids[ki])
       IN  IF r.exc # ""
           THEN /\ pc' = "raised"
                /\ error' = r.exc
                /\ UNCHANGED <<votes, vi>>
           ELSE /\ votes' = r.value
                /\ vi' = 1
                /\ pc' = "vote"
                /\ UNCHANGED error
    /\ UNCHANGED <<upstream, run, sessions, si, sak_ids, ki, all_votes, mangler_tid, document>>

\* for vote in votes: the title and the details are fetched, vote_obj is
\* built and appended; an exception of the body leaves fetch_all_votes and
\* main()
ProcessVote ==
    /\ pc = "vote"
    /\ vi <= Len(votes)
    /\ \E now \in NowValues :
         LET r == vote_obj(votes[vi], now)
         IN  IF r.exc # ""
             THEN /\ pc' = "raised"
                  /\ error' = r.exc
                  /\ UNCHANGED <<vi, all_votes, mangler_tid>>
             ELSE /\ all_votes' = Append(all_votes, r.obj)
                  /\ mangler_tid' = IF MissingTid(votes[vi])
                                    THEN mangler_tid \cup {r.obj.id}
                                    ELSE mangler_tid
                  /\ vi' = vi + 1
                  /\ UNCHANGED <<pc, error>>
    /\ UNCHANGED <<upstream, run, sessions, si, sak_ids, ki, votes, document>>

\* the votes of the case are exhausted: on to the next case
EndVotes ==
    /\ pc = "vote"
    /\ vi > Len(votes)
    /\ ki' = ki + 1
    /\ pc' = "sak"
    /\ UNCHANGED <<upstream, run, error, sessions, si, sak_ids, votes, vi, all_votes,
                   mangler_tid, document>>

\* the cases of the session are exhausted: on to the next session
EndSaker ==
    /\ pc = "sak"
    /\ ki > Len(sak_ids)
    /\ si' = si + 1
    /\ pc' = "sesjon"
    /\ UNCHANGED <<upstream, run, error, sessions, sak_ids, ki, votes, vi, all_votes,
                   mangler_tid, document>>

\* the sessions are exhausted: all_votes.sort(...); return all_votes
SortAndReturn ==
    /\ pc = "sesjon"
    /\ si > Len(sessions)
    /\ all_votes' = sort(all_votes)
    /\ pc' = "returned"
    /\ UNCHANGED <<upstream, run, error, sessions, si, sak_ids, ki, votes, vi,
                   mangler_tid, document>>

\* the dictionary save_to_json dumps
data(votes_, now) ==
    [siste_oppdatering |-> now,
     antall_voteringer |-> Len(votes_),
     voteringer        |-> votes_]

\* main: if votes: save_to_json(votes)
save_to_json ==
    /\ pc = "returned"
    /\ all_votes # <<>>
    /\ \E now \in NowValues : document' = <<data(all_votes, now)>>
    /\ pc' = "done"
    /\ UNCHANGED <<upstream, run, error, sessions, si, sak_ids, ki, votes, vi, all_votes,
                   mangler_tid>>

\* main: else: logging.warning("Ingen voteringer funnet")
NoVotesFound ==
    /\ pc = "returned"
    /\ all_votes = <<>>
    /\ pc' = "done"
    /\ UNCHANGED <<upstream, run, error, sessions, si, sak_ids, ki, votes, vi, all_votes,
                   mangler_tid, document>>

\* the script is started again; the service and votes.json are as the last
\* run left them
Rerun ==
    /\ pc \in {"done", "raised"}
    /\ run < MaxRuns
    /\ run' = run + 1
    /\ pc' = "main"
    /\ error' = ""
    /\ sessions' = <<>>
    /\ si' = 1
    /\ sak_ids' = <<>>
    /\ ki' = 1
    /\ votes' = <<>>
    /\ vi' = 1
    /\ all_votes' = <<>>
    /\ mangler_tid' = {}
    /\ UNCHANGED <<upstream, document>>

Next ==
    \/ Start
    \/ FetchSaker
    \/ FetchVoteringer
    \/ ProcessVote
    \/ EndVotes
    \/ EndSaker
    \/ SortAndReturn
    \/ save_to_json
    \/ NoVotesFound

NextTwice ==
    \/ Next
    \/ Rerun

\* the state in which main() is entered, against the service upstream_
InitWith(upstream_) ==
    /\ upstream = upstream_
    /\ run = 1
    /\ pc = "main"
    /\ error = ""
    /\ sessions = <<>>
    /\ si = 1
    /\ sak_ids = <<>>
    /\ ki = 1
    /\ votes = <<>>
    /\ vi = 1
    /\ all_votes = <<>>
    /\ mangler_tid = {}
    /\ document = <<>>

----------------------------------------------------------------------------
(* The responses the service is drawn from.                                *)

S1 == <<"8", "1">>
S2 == <<"8", "2">>
V1 == <<"1", "1">>
V2 == <<"1", "2">>
V3 == <<"1", "3">>
V4 == <<"1", "4">>
TApr == <<"2", "0", "2", "4", "-", "0", "4", "-", "0", "1", "T", "0", "9", ":", "0", "0", ":", "0", "0">>
TMay == <<"2", "0", "2", "4", "-", "0", "5", "-", "0", "1", "T", "1", "0", ":", "0", "0", ":", "0", "0">>

Failed(endpoint) ==
    {[status |-> "transport", doc |-> EmptyDoc[endpoint]],
     [status |-> "malformed", doc |-> EmptyDoc[endpoint]]}

Ok(doc) == [status |-> "ok", doc |-> doc]

\* a sak_votering element: votering_resultat says whether that child is
\* there, votering_dato_tid is its child, the other fields are children of
\* the element itself
Votering(id, for, mot, vedtatt, tema, sak, resultat, dato, tid) ==
    [votering_id |-> id, antall_for |-> for, antall_mot |-> mot, vedtatt |-> vedtatt,
     votering_tema |-> tema, sak_id |-> sak, votering_resultat |-> resultat,
     votering_dato_tid |-> dato, votering_tid |-> tid]

\* a representant_votering element: representant, parti (a child of
\* representant) and votering_resultat say whether that child is there
Stemme(rep, fornavn, etternavn, parti, parti_id, resultat, resultat_id) ==
    [representant |-> rep, fornavn |-> fornavn, etternavn |-> etternavn,
     parti |-> parti, parti_id |-> parti_id,
     votering_resultat |-> resultat, resultat_id |-> resultat_id]

Per    == <<"P", "e", "r">>
Hansen == <<"H", "a", "n", "s", "e", "n">>
Kari   == <<"K", "a", "r", "i">>
Olsen  == <<"O", "l", "s", "e", "n", " ">>
For    == <<"f", "o", "r">>
Mot    == <<"m", "o", "t">>

\* the ballots of the pipeline's detail responses: a complete one and one
\* without its parti element
TwoStemmer ==
    <<Stemme(TRUE, Per, Hansen, TRUE, <<"A">>, TRUE, For),
      Stemme(TRUE, Kari, Olsen, FALSE, Absent, TRUE, Mot)>>

Detail(dato, ballots) == Ok([votering_dato_tid |-> dato, ballots |-> ballots])

Title(kort, lang) == Ok([korttittel |-> kort, tittel |-> lang])

Kort == <<"K", "o", "r", "t">>
Lang == <<"L", "a", "n", "g", " ", "t", "i", "t", "t", "e", "l">>
Tema == <<"T", "e", "m", "a">>

\* the titles of the two cases: a short and a long one, and a long one alone
Titles == (S1 :> Title(Kort, Lang)) @@ (S2 :> Title(Absent, Lang))

\* the sak_votering elements of the pipeline's vote listings
EA == Votering(V1, <<"-", "1">>, <<"1", "2">>, <<"T", "r", "u", "e">>, Tema, S1,
               FALSE, Absent, TApr)
EB == Votering(V2, <<"3">>, Absent, <<"f", "a", "l", "s", "e">>, Absent, S1,
               TRUE, TApr, TMay)
EC == Votering(V3, None, <<"7">>, Absent, Tema, Absent, TRUE, Absent, Absent)
ED == Votering(Absent, <<"1">>, <<"1">>, <<"t", "r", "u", "e">>, Tema, S2,
               FALSE, Absent, TApr)
EE == Votering(None, <<"1">>, <<"1">>, <<"t", "r", "u", "e">>, Tema, S2,
               FALSE, Absent, TMay)
EX == Votering(V4, <<"x">>, <<"1">>, <<"t", "r", "u", "e">>, Tema, S2,
               FALSE, Absent, TMay)
EY == Votering(V4, <<"1">>, <<"1">>, None, Tema, S2, FALSE, Absent, TMay)

SakerResponses ==
    Failed("saker") \cup {Ok(<<S1>>), Ok(<<Absent, None, S2, S1>>)}

\* the vote listings of case S1 and of case S2
VoteringerResponses(sak_id) ==
    IF sak_id = S1
    THEN Failed("voteringer") \cup {Ok(<<EA, EB>>), Ok(<<EB, EX>>)}
    ELSE {[status |-> "transport", doc |-> EmptyDoc.voteringer],
          Ok(<<ED, EC, EE>>), Ok(<<EY>>)}

\* the detail responses of a vote
DetailResponses(id) ==
    IF id = V3 THEN {[status |-> "transport", doc |-> EmptyDoc.votering],
                     Detail(Absent, TwoStemmer)}
    ELSE {[status |-> "transport", doc |-> EmptyDoc.votering],
          Detail(TMay, TwoStemmer)}

Sessions == {fetch_all_sessions_since_2022[i] : i \in 1..Len(fetch_all_sessions_since_2022)}

\* the services the whole pipeline is run against
PipelineUpstreams ==
    {[saker |-> sk, voteringer |-> vt, votering |-> vd, sak |-> Titles] :
        sk \in [Sessions -> SakerResponses],
        vt \in {f \in [{S1, S2} -> UNION {VoteringerResponses(id) : id \in {S1, S2}}] :
                    \A id \in {S1, S2} : f[id] \in VoteringerResponses(id)},
        vd \in {f \in [{V1, V2, V3} -> UNION {DetailResponses(id) : id \in {V1, V2, V3}}] :
                    \A id \in {V1, V2, V3} : f[id] \in DetailResponses(id)}}

Init == \E u \in PipelineUpstreams : InitWith(u)

Spec == Init /\ [][Next]_vars

\* the services main() is run against more than once: those whose session
\* listings are malformed or hold both cases, and whose vote listings fail
\* in transport or hold the elements EA to EX
TwiceUpstreams ==
    {u \in PipelineUpstreams :
        /\ \A sesjon \in Sessions : u.saker[sesjon].status # "transport"
        /\ \A sak_id \in {S1, S2} : /\ u.voteringer[sak_id].status # "malformed"
                                    /\ u.voteringer[sak_id] # Ok(<<EY>>)
        /\ \A sesjon \in Sessions : u.saker[sesjon] # Ok(<<S1>>)}

InitTwice == \E u \in TwiceUpstreams : InitWith(u)

SpecTwice == InitTwice /\ [][NextTwice]_vars

----------------------------------------------------------------------------
(* One coarse vote record at a time: the first session lists one case, the *)
(* case one sak_votering element, and the element's fields range over the  *)
(* raw values the reconciler tells apart.                                  *)

RawFor ==
    {Absent, None, <<"-", "1">>, <<"1", "2">>, <<"-", "2">>, <<"x">>, <<" ", "7">>}

RawMot == {Absent, <<"-", "1">>, <<"1", "2">>, <<"-", "2">>}

RawVedtatt ==
    {Absent, None, <<"t", "r", "u", "e">>, <<"T", "r", "u", "e">>, <<"T", "R", "U", "E">>,
     <<"T", "r", "u", "e", " ">>, <<"1">>, <<"f", "a", "l", "s", "e">>}

\* <<votering_resultat, votering_dato_tid, votering_tid>> of an element
RawTimes ==
    {<<FALSE, Absent, Absent>>, <<FALSE, Absent, TApr>>, <<FALSE, Absent, None>>,
     <<TRUE, Absent, TApr>>, <<TRUE, None, TApr>>, <<TRUE, TMay, TApr>>}

RecordElements ==
    {Votering(V1, f, m, v, Tema, S1, t[1], t[2], t[3]) :
        f \in RawFor, m \in RawMot, v \in RawVedtatt, t \in RawTimes}
    \cup {Votering(id, <<"1">>, <<"1">>, <<"t", "r", "u", "e">>, tema, sak, FALSE, Absent, TApr) :
        id \in {Absent, None, V1}, tema \in {Absent, None, Tema}, sak \in {Absent, None, S1}}

RecordDetails ==
    {[status |-> "transport", doc |-> EmptyDoc.votering],
     Detail(TMay, TwoStemmer), Detail(None, <<>>)}

RecordTitles ==
    Failed("sak") \cup {Title(Kort, Lang), Title(None, Lang), Title(Absent, None),
                        Title(Absent, Absent)}

\* the listing of the first session is response, the later sessions fail
FirstSession(response) ==
    [s \in Sessions |->
        IF s = fetch_all_sessions_since_2022[1] THEN response
        ELSE [status |-> "transport", doc |-> EmptyDoc.saker]]

RecordUpstreams ==
    {[saker |-> FirstSession(Ok(<<S1>>)), voteringer |-> (S1 :> Ok(<<e>>)),
      votering |-> (V1 :> d), sak |-> Titles] :
        e \in RecordElements, d \in RecordDetails}
    \cup {[saker |-> FirstSession(Ok(<<S1>>)), voteringer |-> (S1 :> Ok(<<EA>>)),
           votering |-> (V1 :> Detail(TMay, TwoStemmer)), sak |-> (S1 :> t)] :
        t \in RecordTitles}

InitRecord == \E u \in RecordUpstreams : InitWith(u)

SpecRecord == InitRecord /\ [][Next]_vars

----------------------------------------------------------------------------
(* One detail response at a time: the ballots of the one vote range over   *)
(* the lists of at most MaxBallots representant_votering elements.         *)

BallotElements ==
    {Stemme(TRUE, Per, Hansen, TRUE, <<"A">>, TRUE, For),
     Stemme(TRUE, Kari, Olsen, TRUE, <<"H">>, TRUE, Mot),
     Stemme(TRUE, Kari, Olsen, FALSE, Absent, TRUE, Mot),
     Stemme(TRUE, Per, Hansen, TRUE, Absent, TRUE, For),
     Stemme(TRUE, Absent, Hansen, TRUE, <<"A">>, TRUE, For),
     Stemme(TRUE, Per, Absent, TRUE, <<"A">>, TRUE, For),
     Stemme(TRUE, None, Hansen, TRUE, <<"A">>, TRUE, For),
     Stemme(FALSE, Absent, Absent, FALSE, Absent, TRUE, Mot),
     Stemme(TRUE, Per, Hansen, TRUE, <<"A">>, FALSE, Absent),
     Stemme(TRUE, Per, Hansen, TRUE, <<"A">>, TRUE, Absent)}

BallotLists == UNION {[1..n -> BallotElements] : n \in 0..MaxBallots}

BallotUpstreams ==
    {[saker |-> FirstSession(sk), voteringer |-> (S1 :> Ok(<<EA>>)),
      votering |-> (V1 :> Detail(dato, ballots)), sak |-> Titles] :
        sk \in {Ok(<<S1>>), [status |-> "malformed", doc |-> EmptyDoc.saker]},
        dato \in {TMay, Absent}, ballots \in BallotLists}

InitBallots == \E u \in BallotUpstreams : InitWith(u)

SpecBallots == InitBallots /\ [][Next]_vars

----------------------------------------------------------------------------
(* What the claims speak of.                                               *)

\* fetch_all_votes has returned: all_votes is the collection it returned
Returned == pc \in {"returned", "done"}

\* the record the last pass of the loop over the votes appended, and the
\* coarse record it was built from
Appended == pc = "vote" /\ vi > 1

LastVote == votes[vi - 1]

LastObj == all_votes[Len(all_votes)]

HasText(x) == x # Absent /\ x # None

\* the case ids a session's listing holds, none when the listing failed
ListedSaker(sesjon) ==
    LET resp == Answer("saker", sesjon)
    IN  IF resp.status = "ok" THEN SelectSeq(resp.doc, HasText) ELSE <<>>

\* the vote elements with an id a case's listing holds, none when it failed
ListedVotes(sak_id) ==
    LET resp == Answer("voteringer", sak_id)
    IN  IF resp.status = "ok"
        THEN SelectSeq(resp.doc, LAMBDA e : HasText(e.votering_id))
        ELSE <<>>

RECURSIVE VotesOfSaker(_)
VotesOfSaker(ids) ==
    IF ids = <<>> THEN <<>> ELSE ListedVotes(Head(ids)) \o VotesOfSaker(Tail(ids))

RECURSIVE VotesOfSessions(_)
VotesOfSessions(ss) ==
    IF ss = <<>> THEN <<>>
    ELSE VotesOfSaker(ListedSaker(Head(ss))) \o VotesOfSessions(Tail(ss))

\* the vote elements with an id that the listings which succeeded hold, in
\* the order of the sessions, of the cases in a session, of the votes in a
\* case
Discovered == VotesOfSessions(sessions)

Occurrences(seq, P(_)) == Cardinality({i \in 1..Len(seq) : P(seq[i])})

Ids(seq) == {seq[i].id : i \in 1..Len(seq)}

Tids(seq) == {seq[i].tid : i \in 1..Len(seq)}

WithTid(seq, t) == SelectSeq(seq, LAMBDA r : r.tid = t)

RECURSIVE Reverse(_)
Reverse(seq) == IF seq = <<>> THEN <<>> ELSE Reverse(Tail(seq)) \o <<Head(seq)>>

\* the step in which fetch_all_votes sorts and returns
SortStep == pc = "sesjon" /\ pc' = "returned"

----------------------------------------------------------------------------
(* C1: the collection fetch_all_votes returns is ordered by tid,            *)
(* descending under the lexicographic order of str: no record is followed   *)
(* by one with a greater tid; and the collection is returned, sorted, only  *)
(* once the loop over the sessions is exhausted and holds a record for      *)
(* every vote the listings hold.                                            *)
C1_SortedByTidDescending ==
    Returned =>
        /\ \A i \in 1..(Len(all_votes) - 1) :
              ~StrLt(all_votes[i].tid, all_votes[i + 1].tid)
        /\ si > Len(sessions)
        /\ Len(all_votes) = Len(Discovered)

\* a returned collection of three records or more, a record with the current
\* time as tid among them, that was discovered in another order
C1_Witness ==
    /\ pc = "done"
    /\ Len(all_votes) >= 3
    /\ \E i \in 1..Len(all_votes) : all_votes[i].tid \in NowValues
    /\ \E i \in 1..(Len(all_votes) - 1) : StrLt(all_votes[i + 1].tid, all_votes[i].tid)
    /\ \E i \in 1..Len(all_votes) : all_votes[i].id # Discovered[i].votering_id

(* C2: a listing that fails (transport error, timeout, malformed body)     *)
(* yields an empty sequence and ends nothing: no exception of a fetch ends *)
(* the run, the failed session has no cases and the failed case no votes,  *)
(* and the returned collection holds, id by id, as many records as the     *)
(* listings that succeeded hold votes.                                     *)
C2_FetchFailuresIsolated ==
    /\ error \notin {"RequestException", "ParseError"}
    /\ (pc \in {"sak", "vote"} /\ Answer("saker", sessions[si]).status # "ok")
          => sak_ids = <<>>
    /\ (pc = "vote" /\ Answer("voteringer", sak_ids[ki]).status # "ok")
          => votes = <<>>
    /\ Returned =>
          \A id \in Ids(all_votes) \cup {Discovered[i].votering_id : i \in 1..Len(Discovered)} :
              Occurrences(all_votes, LAMBDA r : r.id = id)
                  = Occurrences(Discovered, LAMBDA e : e.votering_id = id)

\* the first session's listing failed, the listing of case S2 failed, and
\* the records of case S1 in the second session are in the output
C2_Witness ==
    /\ pc = "done"
    /\ Answer("saker", sessions[1]).status # "ok"
    /\ Answer("saker", sessions[2]).status = "ok"
    /\ S2 \in {ListedSaker(sessions[2])[i] : i \in 1..Len(ListedSaker(sessions[2]))}
    /\ Answer("voteringer", S2).status # "ok"
    /\ Ids(all_votes) = {V1, V2}

(* C3: the tid of a record is the timestamp fetch_vote_details returned    *)
(* when that is a non-empty str, else the coarse record's votering_tid     *)
(* when that is a non-empty str, else the current time; and in a returned  *)
(* collection a vote whose detail fetch failed has a record with no        *)
(* ballots, the coarse record's timestamp when it has one, and a place     *)
(* behind every record with a greater tid.                                 *)
C3_TimestampPrecedence ==
    /\ Appended =>
          LET riktig_dato == fetch_vote_details(LastVote.votering_id).dato_tid
              nominal     == LastVote.votering_tid
          IN  IF riktig_dato \notin {None, <<>>} THEN LastObj.tid = riktig_dato
              ELSE IF nominal \notin {Absent, None, <<>>} THEN LastObj.tid = nominal
              ELSE LastObj.tid \in NowValues
    /\ Returned =>
          /\ \A k \in 1..Len(Discovered) :
                LET e == Discovered[k]
                IN  Answer("votering", e.votering_id).status # "ok" =>
                      \E i \in 1..Len(all_votes) :
                          /\ all_votes[i].id = e.votering_id
                          /\ all_votes[i].stemmer = <<>>
                          /\ HasText(vote_data(e).votering_tid)
                                => all_votes[i].tid = vote_data(e).votering_tid
          /\ \A i, j \in 1..Len(all_votes) :
                StrLt(all_votes[j].tid, all_votes[i].tid) => i < j

\* the vote V2, whose detail fetch failed, is in the output with its own
\* April timestamp and no ballots, behind V1 with the May timestamp of its
\* details, though V2's element also carries a May votering_tid
C3_Witness ==
    /\ pc = "done"
    /\ Answer("votering", V2).status # "ok"
    /\ Answer("votering", V1).status = "ok"
    /\ \E i, j \in 1..Len(all_votes) :
          /\ i < j
          /\ all_votes[i].id = V1 /\ all_votes[i].tid = TMay
          /\ all_votes[j].id = V2 /\ all_votes[j].tid = TApr
          /\ all_votes[j].stemmer = <<>>

(* C4: building the record never raises on the decided flag, and the       *)
(* record's vedtatt is true exactly when the raw value, case-folded, is     *)
(* "true"; every other raw value, an absent field and a field with no text  *)
(* among them, gives a record with vedtatt false.                           *)
C4_VedtattNeverRaises ==
    /\ error # "AttributeError"
    /\ Appended =>
          LET raw    == LastVote.vedtatt
              folded == IF HasText(raw) THEN lower(raw) ELSE <<>>
          IN  LastObj.vedtatt = (folded = <<"t", "r", "u", "e">>)

(* C5: the for-count and the against-count of a record are never negative:  *)
(* an absent count and the sentinel "-1" give 0, any other raw value the    *)
(* integer it spells.                                                       *)
C5_CountsNonNegative ==
    Appended =>
        /\ LastObj.for >= 0
        /\ LastObj.mot >= 0
        /\ LastVote.antall_for \in {Absent, <<"-", "1">>} => LastObj.for = 0
        /\ LastVote.antall_mot \in {Absent, <<"-", "1">>} => LastObj.mot = 0

\* the ballot the claim describes for one representant_votering element,
\* each field from the element's own children or "" when a child is missing
OwnBallot(stemme) ==
    LET fornavn   == IF stemme.representant /\ stemme.fornavn # Absent
                     THEN stemme.fornavn ELSE <<>>
        etternavn == IF stemme.representant /\ stemme.etternavn # Absent
                     THEN stemme.etternavn ELSE <<>>
    IN  [navn   |-> strip(fornavn \o <<" ">> \o etternavn),
         parti  |-> IF stemme.representant /\ stemme.parti /\ stemme.parti_id # Absent
                    THEN stemme.parti_id ELSE <<>>,
         stemme |-> IF stemme.votering_resultat /\ stemme.resultat_id # Absent
                    THEN stemme.resultat_id ELSE <<>>]

(* C6: for a well-formed detail response whose elements all carry text,     *)
(* fetch_vote_details returns one ballot per representant_votering element, *)
(* in order, each built from that element's own children with "" for a      *)
(* missing one; a missing child, the representant element included, neither *)
(* drops a ballot nor lends a ballot another element's values.              *)
C6_BallotsDegradeIndependently ==
    Appended =>
        LET resp    == Answer("votering", LastVote.votering_id)
            ballots == resp.doc.ballots
            texts   == \A i \in 1..Len(ballots) :
                           None \notin {ballots[i].fornavn, ballots[i].etternavn,
                                        ballots[i].parti_id, ballots[i].resultat_id}
        IN  (resp.status = "ok" /\ texts) =>
                /\ Len(LastObj.stemmer) = Len(ballots)
                /\ \A i \in 1..Len(ballots) : LastObj.stemmer[i] = OwnBallot(ballots[i])

\* votes.json is written anew over the one an earlier run left
Rewritten == pc = "returned" /\ pc' = "done" /\ document # <<>> /\ document' # <<>>

(* C7 as stated: a run against the unchanged service returns the very       *)
(* collection the run before it returned; the documents the two runs write  *)
(* differ in siste_oppdatering at most.                                     *)
C7_RunsIdentical ==
    [][Rewritten =>
          /\ document'[1].voteringer = document[1].voteringer
          /\ document'[1].antall_voteringer = document[1].antall_voteringer]_vars

(* C7 amended: a run against the unchanged service in which no vote lacked  *)
(* both timestamps returns the very collection the run before it returned.  *)
C7_RunsIdenticalWhenTimed ==
    [][(Rewritten /\ mangler_tid = {}) =>
          /\ document'[1].voteringer = document[1].voteringer
          /\ document'[1].antall_voteringer = document[1].antall_voteringer]_vars

\* a second run has written two records or more, one with the timestamp of
\* its details and one with the coarse record's own, and none lacked both
C7_Witness ==
    /\ run = 2
    /\ pc = "done"
    /\ mangler_tid = {}
    /\ document # <<>>
    /\ document[1].voteringer = all_votes
    /\ \E i, j \in 1..Len(all_votes) :
          /\ all_votes[i].tid = TMay /\ Answer("votering", all_votes[i].id).status = "ok"
          /\ all_votes[j].tid = TApr /\ Answer("votering", all_votes[j].id).status # "ok"

(* C8: every record of the returned collection has a non-empty id, the      *)
(* coarse records of a case all have one, and the collection holds as many  *)
(* records as the listings hold vote elements with a non-empty votering_id: *)
(* one for each, none for an element without.                               *)
C8_OneRecordPerIdentifiedVote ==
    /\ pc = "vote" => \A i \in 1..Len(votes) : HasText(votes[i].votering_id)
    /\ \A i \in 1..Len(all_votes) : HasText(all_votes[i].id) /\ all_votes[i].id # <<>>
    /\ Returned =>
          /\ Len(all_votes) = Len(Discovered)
          /\ \A k \in 1..Len(Discovered) : Discovered[k].votering_id \in Ids(all_votes)

\* the listing of case S2 held an element without votering_id, one with an
\* empty votering_id and the vote V3; V3 alone of them has a record
C8_Witness ==
    /\ pc = "done"
    /\ Answer("voteringer", S2) = Ok(<<ED, EC, EE>>)
    /\ \E i \in 1..Len(sessions) : S2 \in {ListedSaker(sessions[i])[k] :
                                             k \in 1..Len(ListedSaker(sessions[i]))}
    /\ V3 \in Ids(all_votes)
    /\ Len(all_votes) = Len(Discovered)

(* C9: fetch_all_votes runs to completion whatever the fetches return and   *)
(* whatever the fields of the vote records hold: no exception ends the run. *)
C9_NeverAborts == pc # "raised" /\ error = ""

SessionsOldestFirst ==
    \A i, j \in 1..Len(sessions) : i < j => sessions[i][1] < sessions[j][1]

(* C10 as stated: the sessions are processed oldest first, and among the    *)
(* records with one tid the sort puts a record discovered later before a    *)
(* record discovered earlier.                                               *)
C10_LaterDiscoveredFirst ==
    [][SortStep =>
          /\ SessionsOldestFirst
          /\ \A t \in Tids(all_votes) :
                WithTid(all_votes', t) = Reverse(WithTid(all_votes, t))]_vars

(* C10 amended: the sessions are processed oldest first, and among the      *)
(* records with one tid the sort keeps the order of discovery: a record     *)
(* discovered earlier stays before a record discovered later.               *)
C10_EarlierDiscoveredFirst ==
    [][SortStep =>
          /\ SessionsOldestFirst
          /\ \A t \in Tids(all_votes) : WithTid(all_votes', t) = WithTid(all_votes, t)]_vars

\* V1 and V2, discovered in this order in case S1, have one tid (both detail
\* fetches failed, both carry the April timestamp) and V1 is returned first
C10_Witness ==
    /\ Returned
    /\ Answer("voteringer", S1) = Ok(<<EA, EB>>)
    /\ \E i \in 1..(Len(all_votes) - 1) :
          /\ all_votes[i].id = V1
          /\ all_votes[i + 1].id = V2
          /\ all_votes[i].tid = all_votes[i + 1].tid

====
